---- MODULE Spec2Model ----
(***************************************************************************)
(* A model of update_congressional_records.py: the rate-limited client     *)
(* (CongressionalRecordUpdater.make_request / download_article_text), the  *)
(* catalog synchronisation (fetch_recent_issues / update_issues_file) and  *)
(* the incremental download pass (check_issue_completeness, process_issue, *)
(* main).                                                                  *)
(*                                                                         *)
(* Three specifications share the variables:                               *)
(*   SpecClient  one client object; every loop iteration of make_request   *)
(*               and download_article_text is a step, time is explicit.    *)
(*   SpecSync    synchronisation passes over a remote listing that grows.  *)
(*   Spec        repeated runs of main's download loop over an archive.    *)
(* In SpecSync and Spec a client call is one choice among the values the   *)
(* call can return (MakeRequestReturns, DownloadReturns).                  *)
(***************************************************************************)
EXTENDS Integers, Sequences, FiniteSets, TLC

(* ------------------------------ bounds -------------------------------- *)
\* number of credential keys tried: 1..MaxKeys
MaxKeys == 2
\* requests one client object issues before the model stops it
MaxRequests == 10
\* clock ticks in one time unit (the code's 1.0 second)
TicksPerUnit == 2
\* descriptors the remote listing holds at most
MaxIssues == 5
\* descriptors in one page of the listing (the code asks for 250)
PageLimit == 2

(* ------------------------- program constants -------------------------- *)
ListRotateEvery == 4
DownloadRotateEvery == 10
TimeoutAttempts == 3
DownloadMaxRetries == 3
BackoffAttempts == 5
BackoffCap == 60
RetryDelay == 1
stop_threshold == 3
max_length == 100
\* the day number standing for 2014-01-01; day 1 lies before it
Epoch == 2

VARIABLES
  \* ---- the client object (CongressionalRecordUpdater.__init__)
  api_keys,            \* the configured keys, <<1, .., n>>
  current_api_key,     \* index of the key in use
  request_count,       \* requests issued by this object
  since_last_request,  \* time.time() - last_request_time, in ticks, capped at one unit
  \* ---- the call in progress
  call,                \* "idle" | "listing" | "download"
  attempt,             \* the local variable attempt
  result,              \* "pending" | "json" | "None" | "True" | "False"
  outcome,             \* what the caller makes of result
  \* ---- history of the client
  trace,               \* the responses of the call in progress, oldest first
  last_gap,            \* ticks between the two most recent requests (capped)
  listing_requests,    \* how many of the request_count requests make_request issued
  \* ---- catalog synchronisation
  remote,              \* the remote listing, in 'issueDate desc' order
  catalog,             \* all_issues.json (<<>> when the file is absent)
  sync_pc,             \* "idle" | "fetch" | "crashed" (an exception ended the process)
  existing_issues,     \* update_issues_file's list as loaded and sorted
  start_date,          \* fetch_recent_issues' cutoff
  all_issues,          \* fetch_recent_issues' accumulator
  offset,              \* fetch_recent_issues' offset
  \* ---- history of the last pass
  seen,                \* every descriptor received in a page of this pass
  recent_issues,       \* what fetch_recent_issues returned
  returned,            \* what update_issues_file returned
  passes,              \* passes completed (counted up to 1)
  pass_events,         \* since the last pass began: "failed" (a listing request), "published"
  \* ---- the archive on disk
  dirs,                \* congress numbers whose subdirectory exists
  files,               \* paths of the content files that exist
  sidecars,            \* paths whose metadata file exists
  \* ---- main's loop
  run,                 \* 1 in the first run of main, 2 in every later one
  pc,                  \* "evaluate" | "listing" | "article" | "metadata" | "done"
  idx,                 \* position of the current issue in issues_2014_onwards
  consecutive_existing_issues,
  total_new_downloads,
  should_stop,
  \* ---- process_issue's locals
  is_complete, existing_count, total_count,
  todo,                \* the section articles of the listing, in loop order
  pos,                 \* position of the loop in todo
  newly_downloaded,
  \* ---- history of the runs
  eval_log,            \* is_complete of every issue evaluated in this run, in order
  check_listing,       \* the listing the last completeness check looked at
  check_called,        \* whether that check made its listing call
  files_before,        \* files when that check was made
  attempted,           \* positions of todo for which a download was attempted
  last_download,       \* position of the last issue with a download attempt in this run (0: none)
  clean_prev,          \* the previous run: "clean" | "failed" (a call or a write failed) | "interrupted"
  clean_cur,           \* this run so far, likewise
  order,               \* issueDate of every issue handed to process_issue in this run, in order
  torn                 \* content files an interrupt of this run left opened but not written out

clientVars == <<api_keys, current_api_key, request_count, since_last_request,
                call, attempt, result, outcome, trace, last_gap, listing_requests>>

syncVars == <<remote, catalog, sync_pc, existing_issues, start_date, all_issues,
              offset, seen, recent_issues, returned, passes, pass_events>>

archiveVars == <<dirs, files, sidecars>>

runVars == <<run, pc, idx, consecutive_existing_issues, total_new_downloads,
             should_stop, is_complete, existing_count, total_count,
             todo, pos, newly_downloaded, eval_log, check_listing, check_called,
             files_before, attempted, last_download, clean_prev, clean_cur, order, torn>>

vars == <<clientVars, syncVars, archiveVars, runVars>>

Min(a, b) == IF a < b THEN a ELSE b

(* =========================== the client =============================== *)

Responses == {"ok", "status429", "timeout", "error", "error429"}

\* a response the code handles as a rate-limit signal: status 429, or an
\* exception whose text contains "429"
IsRateLimit(resp) == resp \in {"status429", "error429"}

\* get_next_api_key: next(cycle(api_keys))
get_next_api_key(key) == (key % Len(api_keys)) + 1

\* faulty variant: the exponential phase ends one attempt early
BackoffWaitEarlyFlat(att) ==
  IF att < BackoffAttempts THEN Min(2 ^ att, BackoffCap) ELSE BackoffCap

\* the wait of handle_429_error when only one key is configured
BackoffWait(att) ==
  IF att <= BackoffAttempts THEN Min(2 ^ att, BackoffCap) ELSE BackoffCap

\* handle_429_error(attempt): the key afterwards and the time slept
handle_429_error(key, att) ==
  IF Len(api_keys) > 1
  THEN [key |-> get_next_api_key(key), wait |-> 0]
  ELSE [key |-> key, wait |-> BackoffWait(att)]

\* faulty variant: the remaining delta is not slept
ThrottleNoSleep(since) == since

\* the throttle: ticks since the previous request at the moment of sending
Throttle(since) ==
  IF since < TicksPerUnit THEN since + (TicksPerUnit - since) ELSE since

\* "if self.request_count % 4 == 0" of make_request
ListRotates(count) == count % ListRotateEvery = 0

\* "if self.request_count % 10 == 0" of download_article_text
DownloadRotates(count) == count % DownloadRotateEvery = 0

\* the preemptive rotation of a listing request
ListRotate(key, count) ==
  IF ListRotates(count) THEN get_next_api_key(key) ELSE key

\* the preemptive rotation of a download request
DownloadRotate(key, count) ==
  IF DownloadRotates(count) THEN get_next_api_key(key) ELSE key

\* faulty variant: a third time-out is retried too
ListTimeoutRetriedOnce(att) == att <= TimeoutAttempts

\* a timed-out listing attempt is retried while attempt < 3
ListTimeoutRetried(att) == att < TimeoutAttempts

\* a timed-out download attempt is retried while attempt < max_retries
DownloadTimeoutRetried(att) == att < DownloadMaxRetries

\* faulty variant: the loop has no bound on attempt
DownloadLoopUnbounded(att) == TRUE

\* the while condition of download_article_text
DownloadLoopContinues(att) == att <= DownloadMaxRetries

\* the values the calls return
MakeRequestReturns == {"json", "None"}
DownloadReturns == {"True", "False", "None"}

\* get_articles_for_issue / fetch_recent_issues: "if not data"; process_issue:
\* "if self.download_article_text(...)"
CallerView(kind, res) ==
  IF kind = "listing"
  THEN (IF res = "json" THEN "data" ELSE "no_data")
  ELSE (IF res = "True" THEN "saved" ELSE "download_failed")

Elapse(since, ticks) == Min(TicksPerUnit, since + ticks)

ClientInit(n) ==
  /\ api_keys = [i \in 1..n |-> i]
  /\ current_api_key = 1
  /\ request_count = 0
  /\ since_last_request = TicksPerUnit
  /\ call = "idle"
  /\ attempt = 0
  /\ result = "pending"
  /\ outcome = "pending"
  /\ trace = <<>>
  /\ last_gap = 0
  /\ listing_requests = 0

\* a caller enters make_request (d ticks after the previous step)
StartListing ==
  \E d \in 0..TicksPerUnit :
    /\ call = "idle" \/ result # "pending"
    /\ request_count < MaxRequests
    /\ call' = "listing"
    /\ attempt' = 1
    /\ result' = "pending"
    /\ outcome' = "pending"
    /\ trace' = <<>>
    /\ since_last_request' = Elapse(since_last_request, d)
    /\ UNCHANGED <<api_keys, current_api_key, request_count, last_gap,
                   listing_requests>>

\* a caller enters download_article_text
StartDownload ==
  \E d \in 0..TicksPerUnit :
    /\ call = "idle" \/ result # "pending"
    /\ request_count < MaxRequests
    /\ call' = "download"
    /\ attempt' = 1
    /\ result' = "pending"
    /\ outcome' = "pending"
    /\ trace' = <<>>
    /\ since_last_request' = Elapse(since_last_request, d)
    /\ UNCHANGED <<api_keys, current_api_key, request_count, last_gap,
                   listing_requests>>

\* one iteration of make_request's loop: throttle, count, rotate, send, and
\* the handling of the response resp, which arrives d ticks after sending
MakeRequestAttempt ==
  \E resp \in Responses, d \in 0..TicksPerUnit :
    /\ call = "listing" /\ result = "pending"
    /\ request_count < MaxRequests
    /\ LET count == request_count + 1
           key   == ListRotate(current_api_key, count)
           h     == handle_429_error(key, attempt)
           retry == IsRateLimit(resp)
                    \/ (resp = "timeout" /\ ListTimeoutRetried(attempt))
           wait  == IF IsRateLimit(resp) THEN h.wait
                    ELSE IF retry THEN RetryDelay ELSE 0
           res   == IF retry THEN "pending"
                    ELSE IF resp = "ok" THEN "json" ELSE "None"
       IN /\ last_gap' = Throttle(since_last_request)
          /\ request_count' = count
          /\ current_api_key' = IF IsRateLimit(resp) THEN h.key ELSE key
          /\ since_last_request' = Elapse(0, d + wait * TicksPerUnit)
          /\ attempt' = IF retry THEN attempt + 1 ELSE attempt
          /\ result' = res
          /\ outcome' = IF res = "pending" THEN "pending" ELSE CallerView("listing", res)
          /\ trace' = Append(trace, [resp |-> resp, attempt |-> attempt,
                                     wait |-> wait, key |-> key,
                                     rotated |-> ListRotates(count)])
          /\ listing_requests' = listing_requests + 1
    /\ UNCHANGED <<api_keys, call>>

\* one iteration of download_article_text's loop
DownloadAttempt ==
  \E resp \in Responses, d \in 0..TicksPerUnit :
    /\ call = "download" /\ result = "pending"
    /\ request_count < MaxRequests
    /\ LET count == request_count + 1
           key   == DownloadRotate(current_api_key, count)
           h     == handle_429_error(key, attempt)
           retry == IsRateLimit(resp)
                    \/ (resp = "timeout" /\ DownloadTimeoutRetried(attempt))
           wait  == IF IsRateLimit(resp) THEN h.wait
                    ELSE IF retry THEN RetryDelay ELSE 0
           res   == IF retry
                    THEN (IF DownloadLoopContinues(attempt + 1) THEN "pending" ELSE "None")
                    ELSE IF resp = "ok" THEN "True" ELSE "False"
       IN /\ last_gap' = Throttle(since_last_request)
          /\ request_count' = count
          /\ current_api_key' = IF IsRateLimit(resp) THEN h.key ELSE key
          /\ since_last_request' = Elapse(0, d + wait * TicksPerUnit)
          /\ attempt' = IF retry THEN attempt + 1 ELSE attempt
          /\ result' = res
          /\ outcome' = IF res = "pending" THEN "pending" ELSE CallerView("download", res)
          /\ trace' = Append(trace, [resp |-> resp, attempt |-> attempt,
                                     wait |-> wait, key |-> key,
                                     rotated |-> DownloadRotates(count)])
    /\ UNCHANGED <<api_keys, call, listing_requests>>

(* ===================== catalog synchronisation ======================== *)

IssueKey(issue) == <<issue.volumeNumber, issue.issueNumber>>

Keys(issues) == {IssueKey(issues[i]) : i \in 1..Len(issues)}

\* faulty variant: the sort puts the oldest issue first
InsertAsc(sorted, x) ==
  LET n == Cardinality({i \in 1..Len(sorted) : sorted[i].issueDate <= x.issueDate})
  IN SubSeq(sorted, 1, n) \o <<x>> \o SubSeq(sorted, n + 1, Len(sorted))

\* list.sort(key=issueDate, reverse=True) places x behind every element that
\* is not older (the sort is stable)
InsertDesc(sorted, x) ==
  LET n == Cardinality({i \in 1..Len(sorted) : sorted[i].issueDate >= x.issueDate})
  IN SubSeq(sorted, 1, n) \o <<x>> \o SubSeq(sorted, n + 1, Len(sorted))

RECURSIVE SortDesc(_)
SortDesc(issues) ==
  IF issues = <<>> THEN <<>>
  ELSE InsertDesc(SortDesc(SubSeq(issues, 1, Len(issues) - 1)), issues[Len(issues)])

\* faulty variant: a descriptor dated exactly the cutoff is taken as too old
TooOldInclusive(issue, cutoff) == issue.issueDate <= cutoff

\* fetch_recent_issues: "if issue_date < start_date: return all_issues"
TooOld(issue, cutoff) == issue.issueDate < cutoff

\* the leading descriptors of a page up to the first one that is too old
RECURSIVE KeptPrefix(_, _)
KeptPrefix(page, cutoff) ==
  IF page = <<>> \/ TooOld(page[1], cutoff) THEN <<>>
  ELSE <<page[1]>> \o KeptPrefix(Tail(page), cutoff)

\* the page the listing endpoint serves at off
Page(off) ==
  SubSeq(remote, off + 1, Min(off + PageLimit, Len(remote)))

\* pagination.next is present while descriptors remain behind the page
HasNext(off) == off + PageLimit < Len(remote)

\* faulty variant: the merge appends without looking at the existing keys
IsNewIdAlways(issue, existing_ids) == TRUE

\* update_issues_file: "if issue_id not in existing_ids"
IsNewId(issue, existing_ids) == IssueKey(issue) \notin existing_ids

RECURSIVE AppendNew(_, _, _)
AppendNew(existing, recent, existing_ids) ==
  IF recent = <<>> THEN existing
  ELSE AppendNew(IF IsNewId(recent[1], existing_ids)
                 THEN Append(existing, recent[1]) ELSE existing,
                 Tail(recent), existing_ids)

\* the merge of update_issues_file, sorted newest first
MergeIssues(existing, recent) ==
  SortDesc(AppendNew(existing, recent, Keys(existing)))

SyncIdle ==
  /\ remote = << [volumeNumber |-> 2, issueNumber |-> 1, issueDate |-> Epoch, congress |-> 1, lacks |-> {}],
                 [volumeNumber |-> 1, issueNumber |-> 1, issueDate |-> Epoch - 1, congress |-> 1, lacks |-> {}] >>
  /\ catalog = <<>>
  /\ sync_pc = "idle"
  /\ existing_issues = <<>>
  /\ start_date = Epoch
  /\ all_issues = <<>>
  /\ offset = 0
  /\ seen = <<>>
  /\ recent_issues = <<>>
  /\ returned = <<>>
  /\ passes = 0
  /\ pass_events = {}

\* the keys a descriptor of a listing payload may come without; lacks is the
\* set of keys the payload omits for the descriptor
PayloadLacks == {{}, {"issueDate"}, {"volumeNumber"}, {"issueNumber"}}

\* the remote publishes an issue, dated the newest day or the day after
RemotePublish ==
  \E d \in {remote[1].issueDate, remote[1].issueDate + 1}, l \in PayloadLacks :
    /\ Len(remote) < MaxIssues
    /\ LET n == Cardinality({i \in 1..Len(remote) : remote[i].volumeNumber = d})
       IN remote' = << [volumeNumber |-> d, issueNumber |-> n + 1,
                        issueDate |-> d, congress |-> 1, lacks |-> l] >> \o remote
    /\ pass_events' = pass_events \cup {"published"}
    /\ UNCHANGED <<catalog, sync_pc, existing_issues, start_date, all_issues,
                   offset, seen, recent_issues, returned, passes>>

\* update_issues_file up to the call of fetch_recent_issues, and that
\* function's first lines: load, sort, take the newest date as the cutoff
SyncStart ==
  /\ sync_pc \in {"idle", "crashed"}
  /\ LET loaded == SortDesc(catalog)
     IN /\ existing_issues' = loaded
        /\ start_date' = IF loaded # <<>> THEN loaded[1].issueDate ELSE Epoch
  /\ all_issues' = <<>>
  /\ offset' = 0
  /\ seen' = <<>>
  /\ recent_issues' = <<>>
  /\ sync_pc' = "fetch"
  /\ pass_events' = {}
  /\ UNCHANGED <<remote, catalog, returned, passes>>

\* issue['issueDate'] raises KeyError for a descriptor the loop over the page
\* reaches, i.e. before it meets one that is too old
RECURSIVE DateKeyError(_, _)
DateKeyError(page, cutoff) ==
  IF page = <<>> THEN FALSE
  ELSE IF "issueDate" \in page[1].lacks THEN TRUE
  ELSE IF TooOld(page[1], cutoff) THEN FALSE
  ELSE DateKeyError(Tail(page), cutoff)

\* issue['volumeNumber'] or issue['issueNumber'] raises KeyError in the merge
IdKeyError(recent) ==
  \E i \in 1..Len(recent) : recent[i].lacks \cap {"volumeNumber", "issueNumber"} # {}

\* one iteration of fetch_recent_issues' loop; when the loop ends, the rest
\* of update_issues_file (merge, sort, save) runs in the same step; a
\* KeyError is caught nowhere and ends the process before the save
FetchPage ==
  \E ret \in MakeRequestReturns :
    /\ sync_pc = "fetch"
    /\ LET page    == IF ret = "json" THEN Page(offset) ELSE <<>>
           kept    == KeptPrefix(page, start_date)
           crossed == Len(kept) < Len(page)
           acc     == all_issues \o kept
           more    == ret = "json" /\ page # <<>> /\ ~crossed /\ HasNext(offset)
       IN /\ seen' = seen \o page
          /\ pass_events' = IF ret = "json" THEN pass_events
                            ELSE pass_events \cup {"failed"}
          /\ IF DateKeyError(page, start_date) \/ (~more /\ IdKeyError(acc))
             THEN /\ sync_pc' = "crashed"
                  /\ UNCHANGED <<all_issues, offset, catalog, recent_issues, returned,
                                 passes, existing_issues>>
             ELSE IF more
             THEN /\ all_issues' = acc
                  /\ offset' = offset + PageLimit
                  /\ UNCHANGED <<sync_pc, catalog, recent_issues, returned, passes,
                                 existing_issues>>
             ELSE /\ all_issues' = acc
                  /\ sync_pc' = "idle"
                  /\ recent_issues' = acc
                  /\ passes' = Min(passes + 1, 1)
                  /\ offset' = offset
                  /\ UNCHANGED existing_issues
                  /\ IF acc = <<>>
                     THEN /\ returned' = existing_issues
                          /\ UNCHANGED catalog
                     ELSE /\ returned' = MergeIssues(existing_issues, acc)
                          /\ catalog' = MergeIssues(existing_issues, acc)
    /\ UNCHANGED <<remote, start_date>>

(* ==================== the incremental download pass ==================== *)

\* characters safe_filename keeps (those of the code's list the titles use)
SafeChars == {"a", "b", "_", "-", ".", " "}

RECURSIVE StripLeft(_)
StripLeft(name) ==
  IF name # <<>> /\ name[1] = " " THEN StripLeft(Tail(name)) ELSE name

RECURSIVE StripRight(_)
StripRight(name) ==
  IF name # <<>> /\ name[Len(name)] = " "
  THEN StripRight(SubSeq(name, 1, Len(name) - 1)) ELSE name

\* safe_filename: replace, cut to max_length, strip
safe_filename(title) ==
  LET replaced == [i \in 1..Len(title) |-> IF title[i] \in SafeChars THEN title[i] ELSE "_"]
      cut      == IF Len(replaced) > max_length THEN SubSeq(replaced, 1, max_length)
                  ELSE replaced
  IN StripLeft(StripRight(cut))

\* the content file of a section article of an issue
ArtifactPath(issue, title) ==
  <<issue.issueDate, issue.congress, issue.volumeNumber, issue.issueNumber,
    safe_filename(title)>>

\* the url of the first 'Formatted Text' item, "" for None
RECURSIVE FormattedTextUrl(_)
FormattedTextUrl(text) ==
  IF text = <<>> THEN ""
  ELSE IF text[1].type = "Formatted Text" THEN text[1].url
  ELSE FormattedTextUrl(Tail(text))

\* "if formatted_text_url:"
Downloadable(section_article) == FormattedTextUrl(section_article.text) # ""

\* the section articles of all article groups, in the order the loops visit them
RECURSIVE Flatten(_)
Flatten(articles) ==
  IF articles = <<>> THEN <<>>
  ELSE articles[1].sectionArticles \o Flatten(Tail(articles))

Formatted(u) == <<[type |-> "PDF", url |-> "p"], [type |-> "Formatted Text", url |-> u]>>
PdfOnly == <<[type |-> "PDF", url |-> "p"]>>

\* what the article endpoint serves for an issue
RemoteArticles(issue) ==
  CASE issue.issueNumber = 6 ->
         << [name |-> "Senate", sectionArticles |->
              << [title |-> <<"a">>, text |-> Formatted("u1")],
                 [title |-> <<"b">>, text |-> Formatted("u2")] >>] >>
    [] issue.issueNumber = 5 ->
         << [name |-> "Senate", sectionArticles |->
              << [title |-> <<"a">>, text |-> Formatted("u3")] >>],
            [name |-> "House", sectionArticles |->
              << [title |-> <<"b">>, text |-> PdfOnly] >>] >>
    [] issue.issueNumber = 4 ->
         << [name |-> "Senate", sectionArticles |->
              << [title |-> <<"a", "/">>, text |-> Formatted("u4")] >>],
            [name |-> "House", sectionArticles |->
              << [title |-> <<"a", "_">>, text |-> Formatted("u5")] >>] >>
    [] issue.issueNumber = 3 ->
         << [name |-> "Senate", sectionArticles |->
              << [title |-> <<"b", " ">>, text |-> Formatted("u6")] >>] >>
    [] issue.issueNumber = 2 ->
         << [name |-> "Daily Digest", sectionArticles |->
              << [title |-> <<"a">>, text |-> PdfOnly] >>] >>
    [] OTHER -> <<>>

\* the synchronised catalog the runs work on; issue 1 is older than 2014
RunCatalog ==
  << [volumeNumber |-> 3, issueNumber |-> 6, issueDate |-> 7, congress |-> 2, lacks |-> {}],
     [volumeNumber |-> 3, issueNumber |-> 5, issueDate |-> 6, congress |-> 2, lacks |-> {}],
     [volumeNumber |-> 3, issueNumber |-> 4, issueDate |-> 5, congress |-> 2, lacks |-> {}],
     [volumeNumber |-> 2, issueNumber |-> 3, issueDate |-> 4, congress |-> 1, lacks |-> {}],
     [volumeNumber |-> 2, issueNumber |-> 2, issueDate |-> 3, congress |-> 1, lacks |-> {}],
     [volumeNumber |-> 1, issueNumber |-> 1, issueDate |-> 1, congress |-> 1, lacks |-> {}] >>

\* main: the issues from 2014 onwards, newest first
issues_2014_onwards ==
  SortDesc(SelectSeq(catalog, LAMBDA issue : issue.issueDate >= Epoch))

\* get_articles_for_issue: "if not data ...: return []"
get_articles_for_issue(issue, ret) ==
  IF CallerView("listing", ret) = "data" THEN RemoteArticles(issue) ELSE <<>>

RECURSIVE CountTotal(_)
CountTotal(sections) ==
  IF sections = <<>> THEN 0
  ELSE (IF Downloadable(sections[1]) THEN 1 ELSE 0) + CountTotal(Tail(sections))

RECURSIVE CountExisting(_, _, _)
CountExisting(sections, issue, onDisk) ==
  IF sections = <<>> THEN 0
  ELSE (IF Downloadable(sections[1]) /\ ArtifactPath(issue, sections[1].title) \in onDisk
        THEN 1 ELSE 0) + CountExisting(Tail(sections), issue, onDisk)

\* faulty variant: an issue without downloadable sub-articles counts as complete
IsCompleteVacuous(existing, total) == existing = total

\* "is_complete = (total_articles > 0 and existing_articles == total_articles)"
IsComplete(existing, total) == total > 0 /\ existing = total

\* check_issue_completeness(issue, output_dir); ret is what its listing call
\* returns when it is made
check_issue_completeness(issue, ret) ==
  IF issue.congress \notin dirs
  THEN [complete |-> FALSE, existing |-> 0, total |-> 0, called |-> FALSE,
        listing |-> <<>>]
  ELSE LET articles == get_articles_for_issue(issue, ret)
           total    == CountTotal(Flatten(articles))
           existing == CountExisting(Flatten(articles), issue, files)
       IN [complete |-> IsComplete(existing, total), existing |-> existing,
           total |-> total, called |-> TRUE, listing |-> articles]

\* faulty variant: the threshold is passed, not reached
StopReachedLate(count) == count > stop_threshold

\* "if self.consecutive_existing_issues >= self.stop_threshold"
StopReached(count) == count >= stop_threshold

\* faulty variant: an existing file is downloaded again
AlreadyDownloadedNever(path, onDisk) == FALSE

\* "if filename.exists()"
AlreadyDownloaded(path, onDisk) == path \in onDisk

CurrentIssue == issues_2014_onwards[idx]

\* process_issue has returned or was unwound: its locals are gone
FrameDropped ==
  /\ is_complete' = FALSE /\ existing_count' = 0 /\ total_count' = 0
  /\ todo' = <<>> /\ pos' = 1 /\ newly_downloaded' = 0
  /\ check_listing' = <<>> /\ check_called' = FALSE /\ files_before' = {}
  /\ attempted' = {}

\* main's loop moves on to the issue after idx, or ends
Advance ==
  IF idx < Len(issues_2014_onwards)
  THEN pc' = "evaluate" /\ idx' = idx + 1
  ELSE pc' = "done" /\ idx' = idx

RunInit ==
  /\ dirs = {} /\ files = {} /\ sidecars = {}
  /\ run = 1
  /\ pc = "evaluate"
  /\ idx = 1
  /\ consecutive_existing_issues = 0
  /\ total_new_downloads = 0
  /\ should_stop = FALSE
  /\ is_complete = FALSE /\ existing_count = 0 /\ total_count = 0
  /\ todo = <<>> /\ pos = 1 /\ newly_downloaded = 0
  /\ eval_log = <<>>
  /\ check_listing = <<>> /\ check_called = FALSE /\ files_before = {}
  /\ attempted = {} /\ last_download = 0
  /\ clean_prev = "clean" /\ clean_cur = "clean"
  /\ torn = {} /\ order = <<>>

\* process_issue up to the stop decision: the completeness check, the
\* counter, and on a stop the return to main, which breaks out of its loop
Evaluate ==
  \E ret \in MakeRequestReturns :
    LET chk   == check_issue_completeness(CurrentIssue, ret)
        count == IF chk.complete THEN consecutive_existing_issues + 1 ELSE 0
        stop  == chk.complete /\ StopReached(count)
    IN /\ pc = "evaluate"
       /\ is_complete' = chk.complete
       /\ existing_count' = chk.existing
       /\ total_count' = chk.total
       /\ consecutive_existing_issues' = count
       /\ should_stop' = stop
       /\ pc' = IF stop THEN "done" ELSE "listing"
       /\ eval_log' = Append(eval_log, chk.complete)
       /\ order' = Append(order, CurrentIssue.issueDate)
       /\ check_listing' = chk.listing
       /\ check_called' = chk.called
       /\ files_before' = files
       /\ attempted' = {}
       /\ clean_cur' = IF chk.called /\ ret # "json" THEN "failed" ELSE clean_cur
       /\ UNCHANGED <<run, idx, total_new_downloads, todo, pos, newly_downloaded,
                      last_download, clean_prev, torn, archiveVars>>

\* check_issue_completeness raises (congress_dir.exists() or
\* filename.exists() fails with an OSError other than "not found"): the
\* exception leaves process_issue before the counter is touched, main's
\* "except Exception" reports it and takes the next issue
EvaluateRaises ==
  /\ pc = "evaluate"
  /\ eval_log' = Append(eval_log, FALSE)
  /\ order' = Append(order, CurrentIssue.issueDate)
  /\ clean_cur' = "failed"
  /\ Advance
  /\ FrameDropped
  /\ UNCHANGED <<archiveVars, run, consecutive_existing_issues, total_new_downloads,
                 should_stop, last_download, clean_prev, torn>>

\* process_issue: the congress subdirectory and the listing to download from
FetchListing ==
  \E ret \in MakeRequestReturns :
    /\ pc = "listing"
    /\ dirs' = dirs \cup {CurrentIssue.congress}
    /\ todo' = Flatten(get_articles_for_issue(CurrentIssue, ret))
    /\ pos' = 1
    /\ newly_downloaded' = 0
    /\ pc' = "article"
    /\ clean_cur' = IF ret # "json" THEN "failed" ELSE clean_cur
    /\ UNCHANGED <<files, sidecars, torn, run, idx, consecutive_existing_issues,
                   total_new_downloads, should_stop, is_complete,
                   existing_count, total_count, eval_log, order, check_listing, check_called,
                   files_before, attempted, last_download, clean_prev>>

\* one iteration of process_issue's loop over the section articles, up to the
\* return of download_article_text
ProcessArticle ==
  \E ret \in DownloadReturns :
    /\ pc = "article" /\ pos <= Len(todo)
    /\ LET path == ArtifactPath(CurrentIssue, todo[pos].title)
       IN IF ~Downloadable(todo[pos]) \/ AlreadyDownloaded(path, files)
          THEN /\ pos' = pos + 1
               /\ UNCHANGED <<pc, files, newly_downloaded, attempted, last_download,
                              clean_cur>>
          ELSE /\ attempted' = attempted \cup {pos}
               /\ last_download' = idx
               /\ IF CallerView("download", ret) = "saved"
                  THEN /\ files' = files \cup {path}
                       /\ newly_downloaded' = newly_downloaded + 1
                       /\ pc' = "metadata"
                       /\ UNCHANGED <<pos, clean_cur>>
                  ELSE /\ pos' = pos + 1
                       /\ clean_cur' = "failed"
                       /\ UNCHANGED <<pc, files, newly_downloaded>>
    /\ UNCHANGED <<dirs, sidecars, torn, run, idx, consecutive_existing_issues,
                   total_new_downloads, should_stop, is_complete,
                   existing_count, total_count, todo, eval_log, order, check_listing,
                   check_called, files_before, clean_prev>>

\* the sidecar of the file just downloaded; a failing write raises, main's
\* "except Exception" takes the next issue
WriteMetadata ==
  \E written \in BOOLEAN :
    /\ pc = "metadata"
    /\ IF written
       THEN /\ sidecars' = sidecars \cup {ArtifactPath(CurrentIssue, todo[pos].title)}
            /\ pos' = pos + 1
            /\ pc' = "article"
            /\ UNCHANGED <<idx, clean_cur, is_complete, existing_count, total_count,
                           todo, newly_downloaded, check_listing, check_called,
                           files_before, attempted>>
       ELSE /\ Advance
            /\ FrameDropped
            /\ clean_cur' = "failed"
            /\ UNCHANGED sidecars
    /\ UNCHANGED <<dirs, files, torn, run, consecutive_existing_issues, total_new_downloads,
                   should_stop, eval_log, order, last_download,
                   clean_prev>>

\* process_issue returns (newly_downloaded, False); main adds up and goes on
ReturnIssue ==
  /\ pc = "article" /\ pos > Len(todo)
  /\ total_new_downloads' = total_new_downloads + newly_downloaded
  /\ Advance
  /\ FrameDropped
  /\ UNCHANGED <<archiveVars, run, consecutive_existing_issues, should_stop,
                 eval_log, order, last_download, clean_prev, clean_cur, torn>>

\* the sub-article the loop of process_issue is about to download
DownloadPending ==
  /\ pc = "article" /\ pos <= Len(todo)
  /\ Downloadable(todo[pos])
  /\ ~AlreadyDownloaded(ArtifactPath(CurrentIssue, todo[pos].title), files)

\* KeyboardInterrupt while process_issue works: its frame is unwound and main
\* breaks out of its loop.  The interrupt may arrive inside
\* download_article_text between open(filename, 'w') and the end of f.write
\* (in_write): the content file then exists without its text.
Interrupt ==
  \E in_write \in BOOLEAN :
    /\ pc \in {"evaluate", "listing", "article", "metadata"}
    /\ in_write => DownloadPending
    /\ IF in_write
       THEN LET path == ArtifactPath(CurrentIssue, todo[pos].title)
            IN /\ files' = files \cup {path}
               /\ torn' = torn \cup {path}
               /\ last_download' = idx
       ELSE UNCHANGED <<files, torn, last_download>>
    /\ pc' = "done"
    /\ clean_cur' = "interrupted"
    /\ FrameDropped
    /\ UNCHANGED <<dirs, sidecars, run, idx, consecutive_existing_issues,
                   total_new_downloads, should_stop, eval_log,
                   order, clean_prev>>

\* main is started again: a new updater, the same catalog and archive
NewRun ==
  /\ pc = "done"
  /\ run' = 2
  /\ pc' = "evaluate"
  /\ idx' = 1
  /\ consecutive_existing_issues' = 0
  /\ total_new_downloads' = 0
  /\ should_stop' = FALSE
  /\ is_complete' = FALSE /\ existing_count' = 0 /\ total_count' = 0
  /\ todo' = <<>> /\ pos' = 1 /\ newly_downloaded' = 0
  /\ eval_log' = <<>>
  /\ check_listing' = <<>> /\ check_called' = FALSE /\ files_before' = {}
  /\ attempted' = {} /\ last_download' = 0
  /\ clean_prev' = clean_cur /\ clean_cur' = "clean"
  /\ torn' = {} /\ order' = <<>>
  /\ UNCHANGED archiveVars

(* ========================= specifications ============================= *)

InitClient == \E n \in 1..MaxKeys : ClientInit(n) /\ SyncIdle /\ RunInit

NextClient ==
  \/ StartListing /\ UNCHANGED <<syncVars, archiveVars, runVars>>
  \/ StartDownload /\ UNCHANGED <<syncVars, archiveVars, runVars>>
  \/ MakeRequestAttempt /\ UNCHANGED <<syncVars, archiveVars, runVars>>
  \/ DownloadAttempt /\ UNCHANGED <<syncVars, archiveVars, runVars>>

SpecClient == InitClient /\ [][NextClient]_vars

InitSync == ClientInit(1) /\ SyncIdle /\ RunInit

NextSync ==
  \/ RemotePublish /\ UNCHANGED <<clientVars, archiveVars, runVars>>
  \/ SyncStart /\ UNCHANGED <<clientVars, archiveVars, runVars>>
  \/ FetchPage /\ UNCHANGED <<clientVars, archiveVars, runVars>>

SpecSync == InitSync /\ [][NextSync]_vars

\* the catalog of the runs is synchronised already
SyncDone ==
  /\ remote = RunCatalog
  /\ catalog = RunCatalog
  /\ sync_pc = "idle"
  /\ existing_issues = RunCatalog
  /\ start_date = RunCatalog[1].issueDate
  /\ all_issues = <<>>
  /\ offset = 0
  /\ seen = <<>>
  /\ recent_issues = <<>>
  /\ returned = RunCatalog
  /\ passes = 1
  /\ pass_events = {}

Init == ClientInit(1) /\ SyncDone /\ RunInit

Next ==
  \/ Evaluate /\ UNCHANGED <<clientVars, syncVars>>
  \/ EvaluateRaises /\ UNCHANGED <<clientVars, syncVars>>
  \/ FetchListing /\ UNCHANGED <<clientVars, syncVars>>
  \/ ProcessArticle /\ UNCHANGED <<clientVars, syncVars>>
  \/ WriteMetadata /\ UNCHANGED <<clientVars, syncVars>>
  \/ ReturnIssue /\ UNCHANGED <<clientVars, syncVars>>
  \/ Interrupt /\ UNCHANGED <<clientVars, syncVars>>
  \/ NewRun /\ UNCHANGED <<clientVars, syncVars>>

Spec == Init /\ [][Next]_vars

(* ======================= claims about the client ====================== *)

\* number of rate-limit responses among the first i responses of the call
RateLimitsUpTo(i) == Cardinality({j \in 1..i : IsRateLimit(trace[j].resp)})

\* the schedule the specification states: 2^n up to n = 5, then a flat 60
ScheduleWait(n) == IF n <= 5 THEN 2 ^ n ELSE 60

FirstThreeRateLimited ==
  /\ Len(trace) >= 3
  /\ \A i \in 1..3 : IsRateLimit(trace[i].resp)

\* C7 as stated: with a single key, the n-th rate-limit response of one
\* make_request call is followed by a wait of 2^n (n <= 5) or 60 (n > 5).
C7_WaitByRateLimitCount ==
  (call = "listing" /\ Len(api_keys) = 1) =>
    \A i \in 1..Len(trace) :
      IsRateLimit(trace[i].resp) => trace[i].wait = ScheduleWait(RateLimitsUpTo(i))

\* C7 amended: with a single key, a rate-limit response received on attempt
\* a of one make_request call (a counts every earlier attempt of the call,
\* timed-out ones included) is followed by a wait of 2^a for a <= 5, never
\* more than 60, and of 60 for a > 5, after which the request is retried;
\* three rate-limit responses at the start of a call wait 2, 4, 8.
C7_WaitByAttempt ==
  (call = "listing" /\ Len(api_keys) = 1) =>
    /\ \A i \in 1..Len(trace) :
         IsRateLimit(trace[i].resp) =>
           /\ trace[i].attempt = i
           /\ trace[i].wait = ScheduleWait(i)
           /\ trace[i].wait <= 60
           /\ (i = Len(trace) => result = "pending" /\ attempt = i + 1)
    /\ FirstThreeRateLimited =>
         <<trace[1].wait, trace[2].wait, trace[3].wait>> = <<2, 4, 8>>

\* C7 witness: a single-key listing call that met three rate-limit responses
\* and then succeeded.
C7_Witness ==
  /\ call = "listing" /\ Len(api_keys) = 1
  /\ Len(trace) = 4 /\ FirstThreeRateLimited
  /\ trace[4].resp = "ok" /\ result = "json"

C9_RateLimitNeverSurfaced ==
  (result \in {"None", "False"} /\ trace # <<>>) =>
    ~IsRateLimit(trace[Len(trace)].resp)

\* C10: a timed-out attempt is retried after a 1-unit delay while fewer than
\* 3 attempts were made; a time-out on the third attempt (or later) ends the
\* call with its failure value, None for make_request and False for
\* download_article_text, which the caller takes as "no data" or "download
\* failed"; a call that only times out makes 3 attempts.
C10_TimeoutHandling ==
  /\ \A i \in 1..Len(trace) :
       trace[i].resp = "timeout" =>
         IF i < 3
         THEN /\ trace[i].wait = 1
              /\ (i = Len(trace) => result = "pending" /\ attempt = i + 1)
         ELSE /\ i = Len(trace)
              /\ result = (IF call = "listing" THEN "None" ELSE "False")
              /\ outcome = (IF call = "listing" THEN "no_data" ELSE "download_failed")
  /\ (\A i \in 1..Len(trace) : trace[i].resp = "timeout") => Len(trace) <= 3

\* C10 witness: a download call that timed out three times and returned False.
C10_Witness ==
  /\ call = "download" /\ Len(trace) = 3
  /\ \A i \in 1..3 : trace[i].resp = "timeout"
  /\ result = "False" /\ outcome = "download_failed"


(* ================ claims about catalog synchronisation ================ *)

Range(issues) == {issues[i] : i \in 1..Len(issues)}

Count(issues, k) == Cardinality({i \in 1..Len(issues) : IssueKey(issues[i]) = k})

PassDone == sync_pc = "idle" /\ passes > 0

\* C3: a key the catalog held once before the merge, and that the fetch
\* result contains too, is held exactly once by the merged catalog, returned
\* and persisted.
C3_DedupOnMerge ==
  PassDone =>
    \A k \in Keys(existing_issues) \cap Keys(recent_issues) :
      Count(existing_issues, k) = 1 =>
        Count(returned, k) = 1 /\ Count(catalog, k) = 1

\* C3 witness: a pass merged a fetch result holding a key of the catalog and a
\* key new to it.
C3_Witness ==
  /\ PassDone
  /\ \E k \in Keys(existing_issues) \cap Keys(recent_issues) : Count(existing_issues, k) = 1
  /\ Keys(recent_issues) \ Keys(existing_issues) # {}

\* the newest issueDate of a non-empty catalog
NewestDate(issues) ==
  CHOOSE d \in {issues[i].issueDate : i \in 1..Len(issues)} :
    \A i \in 1..Len(issues) : issues[i].issueDate <= d

\* the cutoff the claim states: the newest date of the existing catalog, the
\* epoch when there is none
StatedCutoff ==
  IF existing_issues = <<>> THEN 2 ELSE NewestDate(existing_issues)

\* C4: a pass uses as cutoff D the newest issueDate of the existing catalog
\* (the epoch without one); of the descriptors received in its pages, those
\* dated before D are not in the fetch result and are not added to the
\* catalog, those dated D or later are in the fetch result and in the merged
\* catalog.
C4_CutoffCorrect ==
  PassDone =>
    /\ start_date = StatedCutoff
    /\ \A i \in 1..Len(seen) :
         IF seen[i].issueDate < StatedCutoff
         THEN /\ seen[i] \notin Range(recent_issues)
              /\ (IssueKey(seen[i]) \notin Keys(existing_issues)
                    => IssueKey(seen[i]) \notin Keys(catalog))
         ELSE /\ seen[i] \in Range(recent_issues)
              /\ seen[i] \in Range(catalog)

\* C4 witness: a pass over an existing catalog received a descriptor older
\* than the cutoff, one dated the cutoff and one newer.
C4_Witness ==
  /\ PassDone /\ existing_issues # <<>>
  /\ \E i \in 1..Len(seen) : seen[i].issueDate < start_date
  /\ \E i \in 1..Len(seen) : seen[i].issueDate = start_date
  /\ \E i \in 1..Len(seen) : seen[i].issueDate > start_date /\ seen[i] \in Range(catalog)


(* ================== claims about the download pass ==================== *)

\* the first n issues of this run were each evaluated complete
LeadingComplete(n) == Len(eval_log) >= n /\ \A i \in 1..n : eval_log[i]

\* C1: the run halts in the step in which the consecutive-complete counter
\* reaches 3; the halting issue is the last one evaluated, it was evaluated
\* complete, and no download was attempted for it or for a later one; when
\* the three newest issues are
\* evaluated complete, exactly three issues are processed and the fourth is
\* never evaluated.
C1_StopHeuristic ==
  /\ consecutive_existing_issues >= 3 => should_stop
  /\ should_stop =>
       /\ pc = "done"
       /\ Len(eval_log) = idx
       /\ last_download < idx
       /\ idx >= 3 /\ eval_log[idx]
  /\ LeadingComplete(3) =>
       should_stop /\ Len(eval_log) = 3 /\ idx = 3

\* C1 witness: the three newest issues were complete, the fourth is not on
\* disk, and the run halted after three issues.
C1_Witness ==
  /\ should_stop /\ idx = 3 /\ Len(eval_log) = 3 /\ LeadingComplete(3)
  /\ \A p \in files : p[4] \notin {issues_2014_onwards[4].issueNumber}

SectionAt(listing, p) == listing[p[1]].sectionArticles[p[2]]

Positions(listing) ==
  UNION {{<<g, i>> : i \in 1..Len(listing[g].sectionArticles)} : g \in 1..Len(listing)}

HasFormattedText(section_article) ==
  \E j \in 1..Len(section_article.text) : section_article.text[j].type = "Formatted Text"

\* the completeness check has just returned
Checked == pc = "listing" \/ (pc = "done" /\ should_stop)

\* C5: the check returns totalCount, the number of sub-articles of the
\* listing with a 'Formatted Text' variant, existingCount, the number of those
\* whose artifact path exists, and isComplete iff totalCount > 0 and
\* existingCount = totalCount; without the congress subdirectory it returns
\* (False, 0, 0) and makes no listing call.
C5_Completeness ==
  Checked =>
    LET down == {p \in Positions(check_listing) :
                   HasFormattedText(SectionAt(check_listing, p))}
        have == {p \in down :
                   ArtifactPath(CurrentIssue, SectionAt(check_listing, p).title) \in files}
    IN /\ total_count = Cardinality(down)
       /\ existing_count = Cardinality(have)
       /\ is_complete <=> (Cardinality(down) > 0 /\ Cardinality(have) = Cardinality(down))
       /\ check_listing \in {<<>>, RemoteArticles(CurrentIssue)}
       /\ check_called <=> (pc = "done" \/ CurrentIssue.congress \in dirs)
       /\ ~check_called =>
            ~is_complete /\ existing_count = 0 /\ total_count = 0 /\ check_listing = <<>>

\* C5 witness: an issue found partially downloaded.
C5_Witness ==
  /\ pc = "listing" /\ check_called
  /\ existing_count >= 1 /\ total_count > existing_count

\* the download loop of process_issue has run to its end
AtLoopEnd == pc = "article" /\ pos > Len(todo)

\* positions of todo that were downloadable and not on disk at the check
MissingAtCheck ==
  {p \in 1..Len(todo) :
     HasFormattedText(todo[p])
     /\ ArtifactPath(CurrentIssue, todo[p].title) \notin files_before}

C11_WholeArtifactsUnderInterrupt ==
  /\ pc = "done" => (files \subseteq sidecars /\ torn = {})
  /\ Checked =>
       \A p \in Positions(check_listing) :
         LET path == ArtifactPath(CurrentIssue, SectionAt(check_listing, p).title)
         IN (HasFormattedText(SectionAt(check_listing, p)) /\ path \in files)
              => path \in sidecars

\* an issue is being processed (process_issue has not returned)
InProcess == pc \in {"listing", "article", "metadata"}

\* C12: within one run the issues are processed in newest-to-oldest
\* issueDate order (an issue processed before another is not older than it),
\* one at a time: the next issue is begun only when process_issue has
\* returned for the one before, and downloads are made only for the issue
\* in process, which is the one begun last.
C12_NewestToOldest ==
  /\ \A i, j \in 1..Len(order) : i < j => order[i] >= order[j]
  /\ \A i \in 1..Len(order) : order[i] = issues_2014_onwards[i].issueDate
  /\ pc = "evaluate" =>
       /\ Len(order) = idx - 1
       /\ todo = <<>> /\ attempted = {} /\ newly_downloaded = 0
  /\ InProcess => Len(order) = idx
  /\ last_download <= Len(order)

\* C12 witness: a run that downloaded for one issue and is downloading for
\* an older one, the fourth it processes.
C12_Witness ==
  /\ pc = "metadata" /\ idx = 4 /\ Len(order) = 4
  /\ total_new_downloads >= 1
  /\ order[1] > order[4]

\* C13 as stated: after any sequence of synchronisation passes that starts
\* from an empty catalog, no two entries of the returned or of the persisted
\* catalog share the key (volumeNumber, issueNumber), whatever the pages of a
\* pass contain.
C13_CatalogKeysUnique ==
  /\ \A k \in Keys(catalog) : Count(catalog, k) = 1
  /\ \A k \in Keys(returned) : Count(returned, k) = 1

\* the number of issues evaluated complete in immediate succession at the
\* end of the log
RECURSIVE TrailingComplete(_)
TrailingComplete(log) ==
  IF log = <<>> \/ ~log[Len(log)] THEN 0
  ELSE 1 + TrailingComplete(SubSeq(log, 1, Len(log) - 1))

\* C14 as stated: the counter equals the number of issues evaluated complete
\* in immediate succession up to the current point of the run, zero as soon
\* as an issue in between is not evaluated complete (also when that issue
\* raised an error main's loop caught); when the run halts on the threshold,
\* the halting issue and the two issues before it in catalog order were each
\* evaluated complete in this run.
C14_CounterMeaning ==
  /\ consecutive_existing_issues = TrailingComplete(eval_log)
  /\ should_stop => (idx >= 3 /\ \A i \in (idx - 2)..idx : eval_log[i])

\* the issue has a sub-article with a 'Formatted Text' variant
HasDownloadable(issue) ==
  \E p \in Positions(RemoteArticles(issue)) :
    HasFormattedText(SectionAt(RemoteArticles(issue), p))

\* every downloadable sub-article of the issue has its content file
CompleteOnDisk(issue) ==
  \A p \in Positions(RemoteArticles(issue)) :
    HasFormattedText(SectionAt(RemoteArticles(issue), p)) =>
      ArtifactPath(issue, SectionAt(RemoteArticles(issue), p).title) \in files

\* C15 as stated: the archive being filled only by runs of main over the
\* same remote, from an empty archive (download failures and interrupts
\* allowed), whenever a run halts on the threshold every issue older than the
\* halting one that has a downloadable sub-article is complete on disk.
C15_StopSound ==
  should_stop =>
    \A j \in (idx + 1)..Len(issues_2014_onwards) :
      HasDownloadable(issues_2014_onwards[j]) => CompleteOnDisk(issues_2014_onwards[j])

\* C16 as stated: the preemptive rotation fires exactly once per 4 listing
\* requests, counting only listing requests, and exactly once per 10
\* download requests, counting only download requests, however listing and
\* download calls interleave: a request rotates the key if and only if it is
\* the 4th, 8th, .. listing request or the 10th, 20th, .. download request.
C16_IndependentRotation ==
  trace # <<>> =>
    LET rotated == trace[Len(trace)].rotated
    IN IF call = "listing"
       THEN rotated <=> (listing_requests % 4 = 0)
       ELSE rotated <=> ((request_count - listing_requests) % 10 = 0)

\* number of timed-out attempts of the call in progress
Timeouts == Cardinality({i \in 1..Len(trace) : trace[i].resp = "timeout"})

\* C17 as stated: with more than one key, a rate-limit response is followed
\* by a retry under the rotated key without a wait and without counting as
\* an attempt: the attempt number of a request is one more than the number of
\* responses before it that were not rate-limit responses, a call given up on
\* a time-out has timed out 3 times, and a download call is not ended by a
\* rate-limit response.
C17_RateLimitCostsNoAttempt ==
  Len(api_keys) > 1 =>
    /\ \A i \in 1..Len(trace) :
         /\ trace[i].attempt = i - RateLimitsUpTo(i - 1)
         /\ IsRateLimit(trace[i].resp) => trace[i].wait = 0
    /\ (result \in {"None", "False"} /\ trace # <<>>
          /\ trace[Len(trace)].resp = "timeout") => Timeouts = 3
    /\ (call = "download" /\ result # "pending" /\ trace # <<>>) =>
         ~IsRateLimit(trace[Len(trace)].resp)

\* C18 as stated: a failure confined to one sub-article (its download, the
\* write of its content file or of its sidecar) is skipped: the other
\* sub-articles of the issue and the later issues are still attempted, the
\* failed one is not counted and every artifact downloaded with success is
\* counted in the run's total.  In the first run over the empty archive the
\* artifacts downloaded with success are those that have their sidecar, so a
\* first run that was not interrupted ends with that many in its total.
C18_FailureIsolated ==
  (run = 1 /\ pc = "done" /\ clean_cur # "interrupted") =>
    total_new_downloads = Cardinality(sidecars)

\* C19 as stated: a payload that lacks expected keys (a descriptor without
\* issueDate, volumeNumber or issueNumber among them) is treated as carrying
\* no data: fetch_recent_issues and update_issues_file complete normally, and
\* the persisted catalog holds no descriptor of such a payload.
C19_MalformedAsEmpty ==
  /\ sync_pc # "crashed"
  /\ \A i \in 1..Len(catalog) : catalog[i].lacks = {}

\* C20 as stated: whatever passes came before (listing requests of theirs
\* may have failed part-way through the pages), once a pass completes
\* without a failed request the catalog holds every descriptor of the remote
\* listing dated on or after the epoch cutoff (the listing not having grown
\* since that pass began).
C20_CatchUp ==
  (PassDone /\ pass_events = {}) =>
    \A i \in 1..Len(remote) :
      remote[i].issueDate >= Epoch => IssueKey(remote[i]) \in Keys(catalog)

\* C21 as stated: with more than one key, the request make_request retries
\* after a rate-limit response is sent under a key different from the one
\* that received the rate-limit response, whatever the value of the shared
\* request counter (also when the every-4-requests rotation fires on the
\* retry).
C21_RetryUsesDifferentKey ==
  (call = "listing" /\ Len(api_keys) > 1) =>
    \A i \in 1..(Len(trace) - 1) :
      IsRateLimit(trace[i].resp) => trace[i + 1].key # trace[i].key

\* C22: download_article_text returns after at most 3 requests, whatever the
\* responses and the number of keys: every request that does not end the call
\* raises attempt by one, so a call still in its loop has issued attempt - 1
\* requests, no call issues more than 3, and after a third request the call
\* has returned.
C22_DownloadTerminates ==
  call = "download" =>
    /\ Len(trace) <= DownloadMaxRetries
    /\ result = "pending" => attempt = Len(trace) + 1
    /\ Len(trace) = DownloadMaxRetries => result # "pending"

\* C22 witness: a download call whose three requests all met a rate-limit
\* response and which returned after the third.
C22_Witness ==
  /\ call = "download" /\ Len(trace) = DownloadMaxRetries
  /\ \A i \in 1..Len(trace) : IsRateLimit(trace[i].resp)
  /\ result = "None" /\ outcome = "download_failed"
====
